---- MODULE Spec2Model ----
(***************************************************************************)
(* JMuxmer (src/src/jmuxer.js): the orchestrator that assembles H.264/AAC  *)
(* units into frames, keeps the keyframe position ledger (kfPosition),     *)
(* creates the per-track buffer controllers once the MediaSource is open   *)
(* and the remuxer is ready, forwards segments, evicts old buffered media  *)
(* and reacts to buffer errors and teardown.                               *)
(*                                                                         *)
(* Times are held in milliseconds: the source stores kfPosition and reads  *)
(* node.currentTime in seconds (value / 1000); every comparison the source *)
(* makes between them is between two such values, so the common factor is  *)
(* dropped and a ledger entry is kfCounter * fd.                           *)
(***************************************************************************)
EXTENDS Integers, Sequences, FiniteSets, TLC

VARIABLES
    mode,              \* options.mode
    optClearBuffer,    \* options.clearBuffer
    onReady,           \* options.onReady: "function" or "null"
    node,              \* this.node: "element" or "false"
    mediaSource,       \* this.mediaSource: "MediaSource" or "null"
    remuxController,   \* this.remuxController: "RemuxController" or "null"
    bufferControllers, \* this.bufferControllers: set or not, its types, their queues
    sourceBuffers,     \* this.sourceBuffers: the types with an entry
    mseReady,          \* this.mseReady
    videoStarted,      \* this.videoStarted: "undefined" or "false"
    interval,          \* the setInterval timer is running
    sinceClean,        \* Date.now() - this.lastCleaningTime
    kfPosition,        \* this.kfPosition (milliseconds)
    kfCounter,         \* this.kfCounter
    tracks,            \* remuxController.tracks: [type -> [ready, dts]]
    initialized,       \* the remuxer has emitted 'ready' and the init segments
    seq,               \* the remuxer's segment sequence number
    sinkOpen,          \* the MediaSource is open (readyState)
    sinkBuffers,       \* mediaSource.sourceBuffers: the attached types
    unsupported,       \* the types whose codec MediaSource.isTypeSupported rejects
    log,               \* running totals of what the handlers asked of their collaborators
    calls,             \* the calls made by the handler that ran last, in order
    videoTime,         \* total duration of the video frames assembled so far
    gopStart,          \* presentation start of every video keyframe fed so far
    lastClean,         \* the last periodic cleanup pass
    lastOp,            \* the handler that ran last
    thrown,            \* the handler that ran last ended by throwing
    destroyed,         \* destroy() has been called
    input,             \* the chunk under assembly (frame-assembly specification)
    output             \* the frames assembled from it

vars == <<mode, optClearBuffer, onReady, node, mediaSource, remuxController,
          bufferControllers, sourceBuffers, mseReady, videoStarted, interval,
          sinceClean, kfPosition, kfCounter, tracks, initialized, seq, sinkOpen,
          sinkBuffers, unsupported, log, calls, videoTime, gopStart,
          lastClean, lastOp,
          thrown, destroyed, input, output>>

(***************************************************************************)
(* Bounds of the model.                                                    *)
(***************************************************************************)
MaxNalus == 3           \* units per chunk (frame-assembly specification)
MaxAac == 2             \* AAC units per chunk (frame-assembly specification)
MaxDuration == 7        \* chunk duration (frame-assembly specification)
MaxCounter == 4         \* video frames fed in all
MaxFeeds == 2           \* chunks handed to the remuxer
MaxChunkDuration == 4   \* chunk duration (ledger specification)
MaxEvents == 1          \* 'error' events of the source buffers
MaxCleanups == 1        \* cleanups requested of one buffer controller
MaxLedger == 4          \* ledger entries (safe-offset specification)
MaxEntry == 5           \* the latest ledger entry (safe-offset specification)
fps == 500              \* options.fps as passed to the constructor (default 30)

(***************************************************************************)
(* Program constants.                                                      *)
(***************************************************************************)
CleaningAge == 10000    \* line 274, in ms

Types == <<"video", "audio">>
TypeSet == {"video", "audio"}
Modes == {"both", "video", "audio"}

\* x / y | 0 for x >= 0 and y > 0: the quotient with its fraction dropped (the
\* wrap of | 0 at 2^31 is beyond every number of the model)
IntDiv(x, y) == x \div y

\* line 43: (1000 / this.options.fps) | 0
frameDuration == IntDiv(1000, fps)

(***************************************************************************)
(* NAL units (util/nalu.js is not part of the sources: a unit is the       *)
(* record of the four properties getVideoFrames reads).                    *)
(***************************************************************************)
NALU(type, isfmb) == [type |-> type, isfmb |-> isfmb]
isvcl(unit) == unit.type \in {"IDR", "NDR"}
isKeyframe(unit) == unit.type = "IDR"
NaluKinds ==
    {NALU("IDR", TRUE), NALU("IDR", FALSE), NALU("NDR", TRUE), NALU("NDR", FALSE),
     NALU("SPS", FALSE)}

SeqsUpTo(S, n) == UNION {[1..k -> S] : k \in 0..n}

RECURSIVE SumSeq(_)
SumSeq(s) == IF s = <<>> THEN 0 ELSE Head(s) + SumSeq(Tail(s))

(***************************************************************************)
(* getVideoFrames, lines 123-151: the grouping of units into frames.       *)
(* acc = [units, frames, keyFrame, vcl] are the loop's locals.             *)
(***************************************************************************)
AssembleStep(acc, unit) ==
    LET close == Len(acc.units) > 0 /\ acc.vcl /\ (unit.isfmb \/ ~isvcl(unit))
        a == IF close
             THEN [units |-> <<>>,
                   frames |-> Append(acc.frames,
                                     [units |-> acc.units, keyFrame |-> acc.keyFrame]),
                   keyFrame |-> FALSE, vcl |-> FALSE]
             ELSE acc
    IN [units |-> Append(a.units, unit),
        frames |-> a.frames,
        keyFrame |-> a.keyFrame \/ isKeyframe(unit),
        vcl |-> a.vcl \/ isvcl(unit)]

RECURSIVE AssembleLoop(_, _)
AssembleLoop(acc, nalus) ==
    IF nalus = <<>> THEN acc
    ELSE AssembleLoop(AssembleStep(acc, Head(nalus)), Tail(nalus))

\* a variant that drops the units left after the last frame boundary when
\* there is no VCL unit among them
AssembleFramesClosedOnly(nalus) ==
    LET acc == AssembleLoop([units |-> <<>>, frames |-> <<>>,
                             keyFrame |-> FALSE, vcl |-> FALSE], nalus)
    IN IF Len(acc.units) = 0 THEN acc.frames
       ELSE IF acc.vcl \/ Len(acc.frames) = 0
            THEN Append(acc.frames, [units |-> acc.units, keyFrame |-> acc.keyFrame])
            ELSE acc.frames

AssembleFrames(nalus) ==
    LET acc == AssembleLoop([units |-> <<>>, frames |-> <<>>,
                             keyFrame |-> FALSE, vcl |-> FALSE], nalus)
        n == Len(acc.frames)
    IN IF Len(acc.units) = 0 THEN acc.frames
       ELSE IF acc.vcl \/ n = 0
            THEN Append(acc.frames, [units |-> acc.units, keyFrame |-> acc.keyFrame])
            ELSE [acc.frames EXCEPT ![n].units = acc.frames[n].units \o acc.units]

(***************************************************************************)
(* Lines 152-160 and 178-186: the per-frame duration of a chunk of n       *)
(* frames; duration = 0 is "no duration" (line 93).                        *)
(***************************************************************************)
BaseDuration(duration, n) ==
    IF duration # 0 THEN IntDiv(duration, n) ELSE frameDuration

\* a variant that drops the remainder instead of spreading it
RemainderDropped(duration, n) == 0

Remainder(duration, n) ==
    IF duration # 0 THEN duration - BaseDuration(duration, n) * n ELSE 0

FrameDurations(duration, n) ==
    LET fd == BaseDuration(duration, n)
        tt == Remainder(duration, n)
    IN [i \in 1..n |-> IF i <= tt THEN fd + 1 ELSE fd]

\* line 93: duration = data.duration ? parseInt(data.duration) : 0
ParseDuration(data) == IF data.hasDuration /\ data.duration # 0 THEN data.duration ELSE 0

(***************************************************************************)
(* The state as one record, so that a handler is an operator from state to *)
(* state and a handler that calls another is their composition.            *)
(***************************************************************************)
Cur ==
    [mode |-> mode, optClearBuffer |-> optClearBuffer, onReady |-> onReady,
     node |-> node, mediaSource |-> mediaSource, remuxController |-> remuxController,
     bufferControllers |-> bufferControllers, sourceBuffers |-> sourceBuffers,
     mseReady |-> mseReady, videoStarted |-> videoStarted, interval |-> interval,
     sinceClean |-> sinceClean, kfPosition |-> kfPosition, kfCounter |-> kfCounter,
     tracks |-> tracks, initialized |-> initialized, seq |-> seq,
     sinkOpen |-> sinkOpen, sinkBuffers |-> sinkBuffers, unsupported |-> unsupported,
     log |-> log, calls |-> calls, videoTime |-> videoTime,
     gopStart |-> gopStart, lastClean |-> lastClean, lastOp |-> lastOp,
     thrown |-> thrown, destroyed |-> destroyed, input |-> input, output |-> output]

Commit(S) ==
    /\ mode' = S.mode /\ optClearBuffer' = S.optClearBuffer /\ onReady' = S.onReady
    /\ node' = S.node /\ mediaSource' = S.mediaSource
    /\ remuxController' = S.remuxController
    /\ bufferControllers' = S.bufferControllers /\ sourceBuffers' = S.sourceBuffers
    /\ mseReady' = S.mseReady /\ videoStarted' = S.videoStarted
    /\ interval' = S.interval /\ sinceClean' = S.sinceClean
    /\ kfPosition' = S.kfPosition /\ kfCounter' = S.kfCounter
    /\ tracks' = S.tracks /\ initialized' = S.initialized /\ seq' = S.seq
    /\ sinkOpen' = S.sinkOpen /\ sinkBuffers' = S.sinkBuffers
    /\ unsupported' = S.unsupported
    /\ log' = S.log /\ calls' = S.calls /\ videoTime' = S.videoTime
    /\ gopStart' = S.gopStart /\ lastClean' = S.lastClean /\ lastOp' = S.lastOp
    /\ thrown' = S.thrown /\ destroyed' = S.destroyed
    /\ input' = S.input /\ output' = S.output

\* A handler starts: nothing called yet, nothing thrown.
Enter(S, op) == [S EXCEPT !.calls = <<>>, !.thrown = "none", !.lastOp = op]

\* One call to a collaborator, made by handler `by` (n: which error it handles),
\* with what held as it returned: the source buffers attached to the
\* MediaSource and whether this.bufferControllers is set.
CallNamed(S, by, n, call, type, arg, name) ==
    [S EXCEPT !.calls = Append(@, [by |-> by, n |-> n, call |-> call,
                                   type |-> type, arg |-> arg, name |-> name,
                                   attached |-> S.sinkBuffers,
                                   controllers |-> S.bufferControllers.truthy])]

Call(S, by, n, call, type, arg) == CallNamed(S, by, n, call, type, arg, "")

Throw(S, error) == [S EXCEPT !.thrown = error]

NoControllers == [truthy |-> FALSE, types |-> {}, queue |-> [t \in TypeSet |-> <<>>]]

TrackTypes(m) ==
    IF m = "both" THEN {"video", "audio"} ELSE IF m = "video" THEN {"video"} ELSE {"audio"}

\* remuxController.isReady(): every track of the mode is ready
isReady(S) == \A type \in TrackTypes(S.mode) : S.tracks[type].ready

ErrorsHandled(S) == Cardinality({i \in 1..Len(S.calls) : S.calls[i].call = "error"})

(***************************************************************************)
(* getVideoFrames (lines 115-168) and getAudioFrames (lines 170-188).      *)
(***************************************************************************)
VideoFrames(nalus, duration) ==
    LET frames == AssembleFrames(nalus)
        d == FrameDurations(duration, Len(frames))
    IN [i \in 1..Len(frames) |->
            [units |-> frames[i].units, keyFrame |-> frames[i].keyFrame,
             duration |-> d[i]]]

\* lines 155-165, frame i onwards: the counter and the ledger
RECURSIVE LedgerLoop(_, _, _, _)
LedgerLoop(S, frames, fd, i) ==
    IF i > Len(frames) THEN S
    ELSE LET counter == S.kfCounter + 1
             key == frames[i].keyFrame
         IN LedgerLoop(
                [S EXCEPT !.kfCounter = counter,
                          !.kfPosition = IF key /\ S.optClearBuffer
                                         THEN Append(@, counter * fd) ELSE @,
                          !.gopStart = IF key THEN Append(@, S.videoTime) ELSE @,
                          !.videoTime = @ + frames[i].duration],
                frames, fd, i + 1)

getVideoFrames(S, nalus, duration) ==
    LET frames == VideoFrames(nalus, duration)
    IN LedgerLoop(S, frames, BaseDuration(duration, Len(frames)), 1)

\* aacFrames is the number of AAC units parsers/aac.js extracted
getAudioFrames(aacFrames, duration) ==
    LET d == FrameDurations(duration, aacFrames)
    IN [i \in 1..aacFrames |-> [duration |-> d[i]]]

FrameTime(frames) == SumSeq([i \in 1..Len(frames) |-> frames[i].duration])

(***************************************************************************)
(* getSafeClearOffsetOfBuffer (lines 253-271): the limit it returns and    *)
(* the ledger it leaves. adjacentOffset = 0 stands for undefined too: line *)
(* 262 treats both alike.                                                  *)
(***************************************************************************)
\* a variant whose scan stops only after an entry above the offset
RECURSIVE AdjacentOffsetInclusive(_, _, _, _)
AdjacentOffsetInclusive(kf, offset, i, adjacent) ==
    IF i > Len(kf) \/ kf[i] > offset THEN adjacent
    ELSE AdjacentOffsetInclusive(kf, offset, i + 1, kf[i])

RECURSIVE AdjacentOffset(_, _, _, _)
AdjacentOffset(kf, offset, i, adjacent) ==
    IF i > Len(kf) \/ kf[i] >= offset THEN adjacent
    ELSE AdjacentOffset(kf, offset, i + 1, kf[i])

RECURSIVE FilterLimit(_, _, _, _)
FilterLimit(kf, adjacent, i, maxLimit) ==
    IF i > Len(kf) THEN maxLimit
    ELSE FilterLimit(kf, adjacent, i + 1, IF kf[i] < adjacent THEN kf[i] ELSE maxLimit)

KeepFrom(kf, adjacent) ==
    LET Keep(kfDelimiter) == kfDelimiter >= adjacent
    IN SelectSeq(kf, Keep)

getSafeClearOffsetOfBuffer(kf, m, offset) ==
    LET maxLimit == IF m = "audio" THEN offset ELSE 0
        adjacentOffset == AdjacentOffset(kf, offset, 1, 0)
    IN IF adjacentOffset # 0
       THEN [limit |-> FilterLimit(kf, adjacentOffset, 1, maxLimit),
             kfPosition |-> KeepFrom(kf, adjacentOffset)]
       ELSE [limit |-> maxLimit, kfPosition |-> kf]

(***************************************************************************)
(* onBufferError (lines 305-321). p is node.currentTime as the handler     *)
(* reads it; n numbers the error within the running handler.               *)
(***************************************************************************)
endOfStream(S, by, n) ==
    \* the call may throw (the source catches it, lines 193-199 and 315-319)
    Call([S EXCEPT !.log.eos = @ + 1], by, n, "endOfStream", "none", 0)

\* a variant that asks for the removal but leaves the buffer attached
removeSourceBufferKept(S, type, n) ==
    Call(S, "onBufferError", n, "removeSourceBuffer", type, 0)

removeSourceBuffer(S, type, n) ==
    IF type \notin S.sinkBuffers
    THEN Throw(Call(S, "onBufferError", n, "removeSourceBuffer", type, 0), "NotFoundError")
    ELSE Call([S EXCEPT !.sinkBuffers = @ \ {type}, !.log.removed[type] = @ + 1],
              "onBufferError", n, "removeSourceBuffer", type, 0)

initCleanup(S, by, n, type, cleanMaxLimit) ==
    Call([S EXCEPT !.log.cleanups[type] = @ + 1], by, n, "initCleanup", type,
         cleanMaxLimit)

\* a variant that answers every error with a cleanup from the start of the buffer
onBufferErrorFromStart(S, data, p) ==
    LET n == ErrorsHandled(S) + 1
        S0 == CallNamed(S, "dispatch", n, "error", data.type, p, data.name)
    IN initCleanup(S0, "onBufferError", n, data.type, 0)

onBufferError(S, data, p) ==
    LET n == ErrorsHandled(S) + 1
        S0 == CallNamed(S, "dispatch", n, "error", data.type, p, data.name)
    IN IF data.name = "QuotaExceeded"
       THEN IF ~S0.bufferControllers.truthy \/ data.type \notin S0.bufferControllers.types
            THEN Throw(S0, "TypeError")
            ELSE initCleanup(S0, "onBufferError", n, data.type, p)
       ELSE IF S0.mediaSource = "null" THEN Throw(S0, "TypeError")
       ELSE LET S1 == IF Cardinality(S0.sinkBuffers) > 0 /\ data.type \in S0.sourceBuffers
                      THEN removeSourceBuffer(S0, data.type, n)
                      ELSE S0
            IN IF S1.thrown # "none" THEN S1
               ELSE IF Cardinality(S1.sinkBuffers) = 0
                    THEN endOfStream(S1, "onBufferError", n)
                    ELSE S1

(***************************************************************************)
(* releaseBuffer (lines 247-251) and onBuffer (lines 283-288).             *)
(* controller/buffer.js is not part of the sources: doAppend hands the     *)
(* queue to the source buffer and dispatches 'error' when that throws.     *)
(* env = [p, fault] is what the handler finds around it: node.currentTime  *)
(* and, per track, what appendBuffer does ("ok", "quota": it throws        *)
(* QuotaExceededError, "fatal": it throws another error); appendBuffer on  *)
(* a source buffer removed from the MediaSource always throws.             *)
(***************************************************************************)
doAppend(S, type, env) ==
    IF S.bufferControllers.queue[type] = <<>> THEN S
    ELSE LET S0 == Call(S, "doAppend", 0, "appendBuffer", type, 0)
             outcome == IF type \in S0.sinkBuffers THEN env.fault[type] ELSE "fatal"
         IN IF outcome = "ok"
            THEN [S0 EXCEPT !.bufferControllers.queue[type] = <<>>]
            ELSE onBufferError(S0, [type |-> type,
                                    name |-> IF outcome = "quota" THEN "QuotaExceeded"
                                             ELSE "InvalidStateError"], env.p)

RECURSIVE releaseLoop(_, _, _)
releaseLoop(S, i, env) ==
    IF i > Len(Types) \/ S.thrown # "none" THEN S
    ELSE IF S.bufferControllers.truthy /\ Types[i] \in S.bufferControllers.types
         THEN releaseLoop(doAppend(S, Types[i], env), i + 1, env)
         ELSE releaseLoop(S, i + 1, env)

releaseBuffer(S, env) == releaseLoop(S, 1, env)

onBuffer(S, data, env) ==
    LET S0 == Call([S EXCEPT !.log.delivered[data.type] = Append(@, data.payload)],
                   "dispatch", 0, "buffer", data.type, data.payload)
        S1 == IF S0.bufferControllers.truthy /\ data.type \in S0.bufferControllers.types
              THEN Call([S0 EXCEPT !.bufferControllers.queue[data.type] =
                                        Append(@, data.payload),
                                   !.log.fed[data.type] = Append(@, data.payload)],
                        "onBuffer", 0, "feed", data.type, data.payload)
              ELSE S0
    IN releaseBuffer(S1, env)

(***************************************************************************)
(* createBuffer (lines 217-231).                                           *)
(***************************************************************************)
RECURSIVE createLoop(_, _)
createLoop(S, i) ==
    IF i > Len(Types) THEN S
    ELSE LET type == Types[i]
         IN IF type \notin TrackTypes(S.mode) THEN createLoop(S, i + 1)
            ELSE IF type \in S.unsupported THEN S
            ELSE createLoop(
                     Call([S EXCEPT !.sinkBuffers = @ \cup {type},
                                    !.log.added[type] = @ + 1,
                                    !.bufferControllers.types = @ \cup {type},
                                    !.sourceBuffers = @ \cup {type}],
                          "createBuffer", 0, "addSourceBuffer", type,
                          IF S.sinkOpen THEN 1 ELSE 0),
                     i + 1)

\* a variant that does not wait for the sink to open
createBufferUngated(S) ==
    IF S.remuxController = "null" \/ ~isReady(S) \/ S.bufferControllers.truthy
    THEN S
    ELSE createLoop([S EXCEPT !.bufferControllers.truthy = TRUE], 1)

createBuffer(S) ==
    IF ~S.mseReady \/ S.remuxController = "null" \/ ~isReady(S)
       \/ S.bufferControllers.truthy
    THEN S
    ELSE createLoop([S EXCEPT !.bufferControllers.truthy = TRUE], 1)

(***************************************************************************)
(* The remuxer (controller/remux.js is not part of the sources): remux     *)
(* advances each track of the mode that got frames, then flushes: on the   *)
(* first flush with every track ready it dispatches 'ready' and one        *)
(* initialization segment (payload 0) per track; on later flushes one      *)
(* media segment (payload seq) per track that got frames. Handlers run     *)
(* inside dispatch, so an exception of theirs ends the flush.              *)
(***************************************************************************)
InitSegment == 0

RECURSIVE initLoop(_, _, _)
initLoop(S, i, env) ==
    IF i > Len(Types) \/ S.thrown # "none" THEN S
    ELSE IF Types[i] \in TrackTypes(S.mode)
         THEN initLoop(onBuffer(S, [type |-> Types[i], payload |-> InitSegment], env),
                       i + 1, env)
         ELSE initLoop(S, i + 1, env)

RECURSIVE mediaLoop(_, _, _, _)
mediaLoop(S, chunks, i, env) ==
    IF i > Len(Types) \/ S.thrown # "none" THEN S
    ELSE IF Types[i] \in TrackTypes(S.mode) /\ Len(chunks[Types[i]]) > 0
         THEN mediaLoop([onBuffer(S, [type |-> Types[i], payload |-> S.seq], env)
                            EXCEPT !.seq = @ + 1],
                        chunks, i + 1, env)
         ELSE mediaLoop(S, chunks, i + 1, env)

flush(S, chunks, env) ==
    IF ~S.initialized
    THEN IF isReady(S)
         THEN LET S1 == initLoop(createBuffer(Call(S, "dispatch", 0, "ready", "none", 0)),
                                 1, env)
              IN IF S1.thrown # "none" THEN S1 ELSE [S1 EXCEPT !.initialized = TRUE]
         ELSE S
    ELSE mediaLoop(S, chunks, 1, env)

remux(S, chunks, env) ==
    LET got(type) == type \in TrackTypes(S.mode) /\ Len(chunks[type]) > 0
        S1 == [S EXCEPT !.log.remuxed = @ + 1,
                        !.tracks = [type \in TypeSet |->
                                       IF got(type)
                                       THEN [ready |-> TRUE,
                                             dts |-> @[type].dts + FrameTime(chunks[type])]
                                       ELSE @[type]]]
    IN flush(S1, chunks, env)

(***************************************************************************)
(* feed (lines 83-113). data.video is the sequence of units extractNALu    *)
(* finds in the chunk, data.audio the number of units extractAAC finds.    *)
(***************************************************************************)
\* a variant that hands every chunk to the remuxer, parsed units or not
feedUnchecked(S, data, env) ==
    IF S.remuxController = "null" THEN S
    ELSE LET duration == ParseDuration(data)
             hasVideo == Len(data.video) > 0
             S1 == IF hasVideo THEN getVideoFrames(S, data.video, duration) ELSE S
             chunks == [video |-> IF hasVideo THEN VideoFrames(data.video, duration)
                                  ELSE <<>>,
                        audio |-> IF data.audio > 0
                                  THEN getAudioFrames(data.audio, duration) ELSE <<>>]
         IN remux(S1, chunks, env)

feed(S, data, env) ==
    IF S.remuxController = "null" THEN S
    ELSE LET duration == ParseDuration(data)
             hasVideo == Len(data.video) > 0
             hasAudio == data.audio > 0
             S1 == IF hasVideo THEN getVideoFrames(S, data.video, duration) ELSE S
             chunks == [video |-> IF hasVideo THEN VideoFrames(data.video, duration)
                                  ELSE <<>>,
                        audio |-> IF hasAudio THEN getAudioFrames(data.audio, duration)
                                  ELSE <<>>]
         IN IF ~(hasVideo \/ hasAudio)
            THEN Call(S1, "feed", 0, "debug.error", "none", 0)
            ELSE remux(S1, chunks, env)

(***************************************************************************)
(* clearBuffer (lines 273-281) and the timer (lines 233-245).              *)
(***************************************************************************)
\* the presentation start of the keyframe opening the GOP that covers p; -1: none
RECURSIVE GopCovering(_, _, _, _)
GopCovering(starts, p, i, found) ==
    IF i > Len(starts) THEN found
    ELSE GopCovering(starts, p, i + 1, IF starts[i] <= p THEN starts[i] ELSE found)

RECURSIVE clearLoop(_, _, _)
clearLoop(S, i, p) ==
    IF i > Len(Types) THEN S
    ELSE IF Types[i] \in S.bufferControllers.types
         THEN LET r == getSafeClearOffsetOfBuffer(S.kfPosition, S.mode, p)
                  S1 == [S EXCEPT !.kfPosition = r.kfPosition,
                                  !.lastClean.limits = Append(@, r.limit)]
              IN clearLoop(initCleanup(S1, "clearBuffer", 0, Types[i], r.limit), i + 1, p)
         ELSE clearLoop(S, i + 1, p)

clearBuffer(S, p) ==
    IF S.optClearBuffer /\ S.sinceClean > CleaningAge
    THEN LET S0 == [S EXCEPT !.lastClean =
                        [done |-> TRUE, p |-> p, ledger |-> S.kfPosition,
                         gop |-> GopCovering(S.gopStart, p, 1, -1), limits |-> <<>>]]
         IN [clearLoop(S0, 1, p) EXCEPT !.sinceClean = 0]
    ELSE S

startInterval(S, p) == IF S.bufferControllers.truthy THEN clearBuffer(S, p) ELSE S

\* a variant that leaves the timer running
stopIntervalKept(S) == S

stopInterval(S) == [S EXCEPT !.interval = FALSE]

(***************************************************************************)
(* destroy (lines 190-215).                                                *)
(***************************************************************************)
destroy(S) ==
    LET S1 == stopInterval(S)
        S2 == IF S1.mediaSource # "null"
              THEN [(IF S1.bufferControllers.truthy THEN endOfStream(S1, "destroy", 0)
                     ELSE S1)
                       EXCEPT !.mediaSource = "null"]
              ELSE S1
        S3 == IF S2.remuxController # "null"
              THEN [Call(S2, "destroy", 0, "remuxController.destroy", "none", 0)
                       EXCEPT !.remuxController = "null", !.log.remuxDestroyed = TRUE]
              ELSE S2
        S4 == IF S3.bufferControllers.truthy
              THEN [S3 EXCEPT !.log.ctlDestroyed = @ \cup S3.bufferControllers.types,
                              !.log.dropped =
                                  @ + SumSeq([i \in 1..Len(Types) |->
                                                Len(S3.bufferControllers.queue[Types[i]])]),
                              !.bufferControllers = NoControllers]
              ELSE S3
    IN [S4 EXCEPT !.node = "false", !.mseReady = FALSE, !.videoStarted = "false",
                  !.destroyed = TRUE]

(***************************************************************************)
(* onMSEOpen (lines 291-298), onMSEClose (lines 300-303) and the node's    *)
(* 'play' listener (lines 69-71).                                          *)
(***************************************************************************)
\* a variant that keeps the callback after calling it
onMSEOpenRepeating(S) ==
    LET S1 == [S EXCEPT !.mseReady = TRUE]
        S2 == IF S1.onReady = "function"
              THEN Call([S1 EXCEPT !.log.onReady = @ + 1], "onMSEOpen", 0, "onReady",
                        "none", 0)
              ELSE S1
    IN createBuffer(S2)

onMSEOpen(S) ==
    LET S1 == [S EXCEPT !.mseReady = TRUE]
        S2 == IF S1.onReady = "function"
              THEN [Call([S1 EXCEPT !.log.onReady = @ + 1], "onMSEOpen", 0, "onReady",
                         "none", 0)
                       EXCEPT !.onReady = "null"]
              ELSE S1
    IN createBuffer(S2)

onMSEClose(S) == [S EXCEPT !.mseReady = FALSE, !.videoStarted = "false"]

onPlay(S) ==
    IF S.remuxController = "null" \/ "video" \notin TrackTypes(S.mode)
    THEN Throw(S, "TypeError")
    ELSE S

(***************************************************************************)
(* The state after the constructor (lines 17-72).                          *)
(***************************************************************************)
NoChunk == [video |-> <<>>, audio |-> 0, hasDuration |-> FALSE, duration |-> 0]
NoFrames == [done |-> FALSE, video |-> <<>>, audio |-> <<>>]
NoClean == [done |-> FALSE, p |-> 0, ledger |-> <<>>, gop |-> -1, limits |-> <<>>]
NoLog ==
    [fed |-> [t \in TypeSet |-> <<>>], delivered |-> [t \in TypeSet |-> <<>>],
     cleanups |-> [t \in TypeSet |-> 0],
     added |-> [t \in TypeSet |-> 0], removed |-> [t \in TypeSet |-> 0],
     eos |-> 0, onReady |-> 0, remuxed |-> 0, events |-> 0,
     remuxDestroyed |-> FALSE, ctlDestroyed |-> {}, dropped |-> 0]

Constructed(m, clear, ready, rejected) ==
    /\ mode = m
    /\ optClearBuffer = clear
    /\ onReady = ready
    /\ node = "element"
    /\ mediaSource = "MediaSource"
    /\ remuxController = "RemuxController"
    /\ bufferControllers = NoControllers
    /\ sourceBuffers = {}
    /\ mseReady = FALSE
    /\ videoStarted = "undefined"
    /\ interval = TRUE
    /\ sinceClean = 0
    /\ kfPosition = <<>>
    /\ kfCounter = 0
    /\ tracks = [t \in TypeSet |-> [ready |-> FALSE, dts |-> 0]]
    /\ initialized = FALSE
    /\ seq = 1
    /\ sinkOpen = FALSE
    /\ sinkBuffers = {}
    /\ unsupported = rejected
    /\ log = NoLog
    /\ calls = <<>>
    /\ videoTime = 0
    /\ gopStart = <<>>
    /\ lastClean = NoClean
    /\ lastOp = "constructor"
    /\ thrown = "none"
    /\ destroyed = FALSE

Init ==
    \E m \in Modes, rejected \in SUBSET TypeSet :
        /\ rejected \subseteq TrackTypes(m)
        /\ Constructed(m, TRUE, "function", rejected)
        /\ input = NoChunk /\ output = NoFrames

(***************************************************************************)
(* The operations and events. p is the playback position node.currentTime  *)
(* holds while the handler runs: any position within the media fed so far. *)
(***************************************************************************)
Longest(S) ==
    LET a == S.tracks["audio"].dts
        v == IF S.tracks["video"].dts > S.videoTime THEN S.tracks["video"].dts
             ELSE S.videoTime
    IN IF a > v THEN a ELSE v

Positions == 0..Longest(Cur)
PositionEnds == {0, Longest(Cur)}

Chunks(videos, audios, durations) ==
    {[video |-> v, audio |-> a, hasDuration |-> TRUE, duration |-> d] :
        v \in videos, a \in audios, d \in durations}
    \cup {[video |-> v, audio |-> a, hasDuration |-> FALSE, duration |-> 0] :
        v \in videos, a \in audios}

IDR == NALU("IDR", TRUE)
NDR == NALU("NDR", TRUE)

Faults == [TypeSet -> {"ok", "quota", "fatal"}]
NoFault == [t \in TypeSet |-> "ok"]

\* appendBuffer can only be reached with the MediaSource opened, and
\* node.currentTime is only read when it throws QuotaExceededError: elsewhere
\* one value stands for all
Relevant(p, fault) ==
    /\ ~(mseReady \/ bufferControllers.truthy) => fault = NoFault
    /\ remuxController = "null" => fault = NoFault
    /\ (\A t \in TypeSet : fault[t] # "quota") => p = 0

Feed(data, p, fault) ==
    /\ remuxController # "null" => log.remuxed < MaxFeeds
    /\ Relevant(p, fault)
    /\ Commit(feed(Enter(Cur, "feed"), data, [p |-> p, fault |-> fault]))

MSEOpen ==
    Commit(onMSEOpen([Enter(Cur, "sourceopen") EXCEPT !.sinkOpen = TRUE]))

\* closing detaches every source buffer from the MediaSource
MSEClose ==
    /\ sinkOpen
    /\ Commit(onMSEClose([Enter(Cur, "sourceclose") EXCEPT !.sinkOpen = FALSE,
                                                          !.sinkBuffers = {}]))

Play == Commit(onPlay(Enter(Cur, "play")))

IntervalTick(p) ==
    /\ interval
    /\ \A t \in TypeSet : log.cleanups[t] < MaxCleanups
    /\ Commit(startInterval(Enter(Cur, "interval"), p))

\* a source buffer's 'error' event, which its controller dispatches as 'error'
BufferErrorEvent(type, p) ==
    /\ bufferControllers.truthy /\ type \in bufferControllers.types
    /\ type \in sinkBuffers
    /\ log.events < MaxEvents
    /\ Commit(onBufferError([Enter(Cur, "error") EXCEPT !.log.events = @ + 1],
                            [type |-> type, name |-> "buffer"], p))

Destroy == Commit(destroy(Enter(Cur, "destroy")))

\* more than ten seconds pass
Elapse ==
    /\ interval /\ sinceClean <= CleaningAge
    /\ Commit([Enter(Cur, "environment") EXCEPT !.sinceClean = CleaningAge + 1])

FeedInputs == Chunks({<<>>, <<IDR>>}, {0, 1}, {})
OneFault == {fault \in Faults : \E t \in TypeSet : fault[t] = "ok"}

(***************************************************************************)
(* Every operation and event together.                                     *)
(***************************************************************************)
Next ==
    \/ \E data \in FeedInputs, p \in PositionEnds, fault \in Faults : Feed(data, p, fault)
    \/ MSEOpen
    \/ MSEClose
    \/ Play
    \/ \E p \in PositionEnds : IntervalTick(p)
    \/ \E type \in TypeSet : BufferErrorEvent(type, 0)
    \/ Destroy
    \/ Elapse

Spec == Init /\ [][Next]_vars

(***************************************************************************)
(* Readiness: chunks, and the MediaSource opening and closing.             *)
(***************************************************************************)
NextReady ==
    \/ \E data \in FeedInputs : Feed(data, 0, NoFault)
    \/ MSEOpen
    \/ MSEClose

SpecReady == Init /\ [][NextReady]_vars

(***************************************************************************)
(* Buffer errors: chunks whose appends may fail, and 'error' events.       *)
(***************************************************************************)
InitErrors ==
    /\ \E m \in Modes : Constructed(m, TRUE, "function", {})
    /\ input = NoChunk /\ output = NoFrames

NextErrors ==
    \/ \E data \in FeedInputs, p \in PositionEnds, fault \in OneFault : Feed(data, p, fault)
    \/ MSEOpen
    \/ MSEClose
    \/ \E type \in TypeSet : BufferErrorEvent(type, 0)

SpecErrors == InitErrors /\ [][NextErrors]_vars

(***************************************************************************)
(* Teardown: every operation and event, before and after destroy().        *)
(***************************************************************************)
QuotaFaults == {fault \in OneFault : \A t \in TypeSet : fault[t] # "fatal"}

TeardownInputs == Chunks({<<>>}, {0}, {}) \cup Chunks({<<IDR>>}, {1}, {})

NextTeardown ==
    \/ \E data \in TeardownInputs, fault \in QuotaFaults : Feed(data, 0, fault)
    \/ MSEOpen
    \/ MSEClose
    \/ Play
    \/ \E p \in PositionEnds : IntervalTick(p)
    \/ \E type \in TypeSet : BufferErrorEvent(type, 0)
    \/ Destroy
    \/ Elapse

SpecTeardown == InitErrors /\ [][NextTeardown]_vars

(***************************************************************************)
(* The ledger: video chunks of differing frame counts and durations, and   *)
(* the periodic cleanup at any playback position.                          *)
(***************************************************************************)
VideoShapes == {<<IDR>>, <<NDR>>, <<IDR, NDR>>}
LedgerInputs == Chunks(VideoShapes, {0}, {1, MaxChunkDuration})

InitLedger ==
    /\ Constructed("video", TRUE, "function", {})
    /\ input = NoChunk /\ output = NoFrames

FeedVideo(data) ==
    /\ kfCounter + Len(AssembleFrames(data.video)) <= MaxCounter
    /\ Commit(feed(Enter(Cur, "feed"), data, [p |-> 0, fault |-> NoFault]))

NextLedger ==
    \/ \E data \in LedgerInputs : FeedVideo(data)
    \/ MSEOpen
    \/ Elapse
    \/ \E p \in Positions : IntervalTick(p)

SpecLedger == InitLedger /\ [][NextLedger]_vars

(***************************************************************************)
(* getSafeClearOffsetOfBuffer alone, on a ledger and a playback position.  *)
(* Every ascending sequence of times is a ledger the program can hold:     *)
(* with one-millisecond frames (duration = number of frames) the entry of  *)
(* a keyframe is its frame number; a chunk with fewer milliseconds than    *)
(* frames enters 0.                                                        *)
(***************************************************************************)
Ascending(kf) == \A i \in 1..(Len(kf) - 1) : kf[i] <= kf[i + 1]
StrictlyAscending(kf) == \A i \in 1..(Len(kf) - 1) : kf[i] < kf[i + 1]

Ledgers == {kf \in SeqsUpTo(0..MaxEntry, MaxLedger) : Ascending(kf)}

NoOffset == [done |-> FALSE, limit |-> 0, kfPosition |-> <<>>]

InitOffsets ==
    /\ \E m \in Modes : Constructed(m, TRUE, "function", {})
    /\ input \in [ledger : Ledgers, offset : 0..(MaxEntry + 1)]
    /\ output = NoOffset

SafeClearOffset ==
    /\ ~output.done
    /\ LET r == getSafeClearOffsetOfBuffer(input.ledger, mode, input.offset)
       IN output' = [done |-> TRUE, limit |-> r.limit, kfPosition |-> r.kfPosition]
    /\ UNCHANGED <<mode, optClearBuffer, onReady, node, mediaSource, remuxController,
                   bufferControllers, sourceBuffers, mseReady, videoStarted, interval,
                   sinceClean, kfPosition, kfCounter, tracks, initialized, seq,
                   sinkOpen, sinkBuffers, unsupported, log, calls, videoTime, gopStart,
                   lastClean, lastOp, thrown, destroyed, input>>

NextOffsets == SafeClearOffset

SpecOffsets == InitOffsets /\ [][NextOffsets]_vars

(***************************************************************************)
(* Frame assembly alone: lines 93-107 of feed on one chunk.                *)
(***************************************************************************)
AssemblyInputs == Chunks(SeqsUpTo(NaluKinds, MaxNalus), 0..MaxAac, 0..MaxDuration)

InitFrames ==
    /\ Constructed("both", TRUE, "function", {})
    /\ input \in AssemblyInputs
    /\ output = NoFrames

Assemble ==
    /\ ~output.done
    /\ output' = [done |-> TRUE,
                  video |-> IF Len(input.video) > 0
                            THEN VideoFrames(input.video, ParseDuration(input))
                            ELSE <<>>,
                  audio |-> IF input.audio > 0
                            THEN getAudioFrames(input.audio, ParseDuration(input))
                            ELSE <<>>]
    /\ UNCHANGED <<mode, optClearBuffer, onReady, node, mediaSource, remuxController,
                   bufferControllers, sourceBuffers, mseReady, videoStarted, interval,
                   sinceClean, kfPosition, kfCounter, tracks, initialized, seq,
                   sinkOpen, sinkBuffers, unsupported, log, calls, videoTime, gopStart,
                   lastClean, lastOp, thrown, destroyed, input>>

NextFrames == Assemble

SpecFrames == InitFrames /\ [][NextFrames]_vars

(***************************************************************************)
(* Eviction: every mode, with and without the clearBuffer option; chunks   *)
(* with video and audio, appends that may run out of quota, the periodic   *)
(* cleanup at any playback position and the node's 'play' event.           *)
(***************************************************************************)
EvictionInputs == Chunks({<<>>, <<IDR, IDR>>}, {0, 1}, {MaxChunkDuration})

InitEviction ==
    /\ \E m \in Modes, clear \in BOOLEAN : Constructed(m, clear, "function", {})
    /\ input = NoChunk /\ output = NoFrames

NextEviction ==
    \/ \E data \in EvictionInputs, p \in PositionEnds, fault \in QuotaFaults :
           Feed(data, p, fault)
    \/ MSEOpen
    \/ Play
    \/ Elapse
    \/ \E p \in Positions : IntervalTick(p)

SpecEviction == InitEviction /\ [][NextEviction]_vars

(***************************************************************************)
(* Input: chunks with and without parsed units, the chunk fed last kept in *)
(* input.                                                                  *)
(***************************************************************************)
InputChunks == Chunks({<<>>, <<IDR>>, <<NDR>>}, {0, 1}, {MaxChunkDuration})

FeedChunk(data) ==
    /\ log.remuxed < MaxFeeds
    /\ Commit([feed(Enter(Cur, "feed"), data, [p |-> 0, fault |-> NoFault])
                  EXCEPT !.input = data])

NextInput ==
    \/ \E data \in InputChunks : FeedChunk(data)
    \/ MSEOpen

SpecInput == InitErrors /\ [][NextInput]_vars

(***************************************************************************)
(* Properties.                                                             *)
(***************************************************************************)
Range(f) == {f[i] : i \in DOMAIN f}
MaxOf(S) == CHOOSE x \in S : \A y \in S : y <= x

\* C1 (eviction safety): every clear offset a periodic cleanup pass computes at
\* playback position p is at or before the presentation start of the keyframe
\* that opens the GOP covering p.
C1_EvictionSafety ==
    (lastClean.done /\ lastClean.gop >= 0) =>
        \A i \in 1..Len(lastClean.limits) : lastClean.limits[i] <= lastClean.gop

\* C2 (ledger ordering): the keyframe position ledger is strictly ascending
\* after any sequence of feeds and eviction passes.
C2_LedgerStrictlyAscending == StrictlyAscending(kfPosition)

\* C3 (duration conservation), as claimed: the frames of a chunk fed with an
\* explicit duration D have durations that sum to D, for video and for audio.
C3_DurationConservation ==
    (output.done /\ input.hasDuration) =>
        /\ Len(output.video) >= 1 => FrameTime(output.video) = input.duration
        /\ Len(output.audio) >= 1 => FrameTime(output.audio) = input.duration

\* C3, amended: the same for an explicit duration D >= 1 (feed takes a duration
\* of 0 for no duration and gives every frame the fps duration).
C3_NonZeroDurationConservation ==
    (output.done /\ input.hasDuration /\ input.duration >= 1) =>
        /\ Len(output.video) >= 1 => FrameTime(output.video) = input.duration
        /\ Len(output.audio) >= 1 => FrameTime(output.audio) = input.duration

C3_RemainderSpread ==
    /\ output.done /\ input.hasDuration /\ input.duration = 7
    /\ Len(output.video) = 3 /\ Len(output.audio) = 2
    /\ output.video[1].duration = 3 /\ output.video[3].duration = 2

\* the greatest ledger entry below k, 0 when there is none
Preceding(kf, k) ==
    LET below == {e \in Range(kf) : e < k}
    IN IF below = {} THEN 0 ELSE MaxOf(below)

\* C4 (safe-offset algorithm), as claimed: in video or both mode, on an
\* ascending ledger, the offset returned for p is the entry preceding k, the
\* greatest entry with k <= p (0 when k or that entry does not exist).
C4_PrecedesGreatestAtOrBefore ==
    (output.done /\ mode # "audio") =>
        LET upTo == {e \in Range(input.ledger) : e <= input.offset}
        IN output.limit = IF upTo = {} THEN 0
                          ELSE Preceding(input.ledger, MaxOf(upTo))

\* C4, amended: k is the greatest entry with k < p.
C4_PrecedesGreatestBefore ==
    (output.done /\ mode # "audio") =>
        LET before == {e \in Range(input.ledger) : e < input.offset}
        IN output.limit = IF before = {} THEN 0
                          ELSE Preceding(input.ledger, MaxOf(before))

C4_PositionOnEntry ==
    /\ output.done /\ mode = "both"
    /\ input.ledger = <<1, 3, 5>> /\ input.offset = 5
    /\ output.limit = 1 /\ output.kfPosition = <<3, 5>>

\* the calls onBufferError made while handling the error dispatched at calls[i]
OwnCalls(i) ==
    {j \in 1..Len(calls) : calls[j].by = "onBufferError" /\ calls[j].n = calls[i].n}

QuotaErrors ==
    {i \in 1..Len(calls) : calls[i].call = "error" /\ calls[i].name = "QuotaExceeded"}
FatalErrors ==
    {i \in 1..Len(calls) : calls[i].call = "error" /\ calls[i].name # "QuotaExceeded"}

\* C5 (quota recovery): a QuotaExceeded error of a track at playback position p
\* is answered at once, before any other call, by a cleanup of that track with
\* clear offset p, and by nothing else: no cleanup of another track, no detach,
\* no end-of-stream.
C5_QuotaRecovery ==
    \A i \in QuotaErrors :
        /\ OwnCalls(i) = {i + 1}
        /\ calls[i + 1].call = "initCleanup"
        /\ calls[i + 1].type = calls[i].type
        /\ calls[i + 1].arg = calls[i].arg
        /\ calls[i + 1].attached = calls[i].attached

C5_QuotaAtPosition ==
    \E i \in QuotaErrors :
        /\ calls[i].type = "video" /\ calls[i].arg > 0
        /\ "video" \in calls[i].attached

\* the source buffers attached when onBufferError returns from the error at calls[i]
AttachedAfter(i) ==
    IF OwnCalls(i) = {} THEN calls[i].attached ELSE calls[MaxOf(OwnCalls(i))].attached

\* C6 (fatal sink error): after any other error of a track, that track's
\* source buffer is detached, every other attached buffer stays attached, and
\* end-of-stream is signalled exactly when no buffer remains attached.
C6_FatalError ==
    \A i \in FatalErrors :
        /\ calls[i].type \notin AttachedAfter(i)
        /\ calls[i].attached \ {calls[i].type} \subseteq AttachedAfter(i)
        /\ \A j \in OwnCalls(i) :
               calls[j].call = "removeSourceBuffer" => calls[j].type = calls[i].type
        /\ (\E j \in OwnCalls(i) : calls[j].call = "endOfStream")
               <=> AttachedAfter(i) = {}

C6_OneTrackDetached ==
    \E i \in FatalErrors :
        /\ calls[i].attached = {"video", "audio"}
        /\ calls[i].type = "video"
        /\ AttachedAfter(i) = {"audio"}
        /\ sinkBuffers = {"audio"}

\* what the object holds and what it has asked of its collaborators
Resources ==
    <<onReady, node, mediaSource, remuxController, bufferControllers, sourceBuffers,
      videoStarted, interval, kfPosition, kfCounter, tracks, initialized, seq,
      sinkBuffers, log>>
ProgramState == <<Resources, mseReady>>

\* C7: after destroy() every operation or event is a no-op: it changes no
\* state, calls nothing and throws nothing.
C7_NoOpAfterDestroy ==
    [][destroyed => (ProgramState' = ProgramState /\ calls' = <<>> /\ thrown' = "none")]_vars

BuffersCreated == {t \in TypeSet : log.added[t] > 0}

TornDown ==
    /\ ~interval
    /\ remuxController = "null" /\ log.remuxDestroyed
    /\ bufferControllers = NoControllers
    /\ log.ctlDestroyed = BuffersCreated

FeedsAndAppends ==
    {i \in 1..Len(calls) : calls[i].call \in {"feed", "appendBuffer"}}

TeardownHolds ==
    /\ [](destroyed => TornDown)
    /\ [][lastOp' = "destroy" => destroyed']_vars
    /\ [][destroyed => (log.fed' = log.fed /\ FeedsAndAppends' = {})]_vars

C9_UnsupportedCodecIsolated ==
    (mode = "both" /\ Cardinality(unsupported) = 1 /\ bufferControllers.truthy) =>
        \A t \in TypeSet \ unsupported :
            /\ t \in bufferControllers.types /\ t \in sourceBuffers
            /\ \A i \in 1..Len(calls) :
                   (calls[i].call = "buffer" /\ calls[i].type = t) =>
                       /\ i < Len(calls)
                       /\ calls[i + 1].call = "feed" /\ calls[i + 1].type = t
                       /\ calls[i + 1].arg = calls[i].arg

\* C10 (idempotent, gated readiness): a source buffer is added for a track at
\* most once, and only with the sink open and every track of the mode ready.
C10_GatedReadiness ==
    /\ \A t \in TypeSet : log.added[t] <= 1
    /\ \A i \in 1..Len(calls) :
           calls[i].call = "addSourceBuffer" =>
               calls[i].arg = 1 /\ sinkOpen /\ isReady(Cur)

C10_OpenedAgain ==
    /\ lastOp = "sourceopen" /\ calls = <<>>
    /\ bufferControllers.truthy
    /\ \A t \in TypeSet : log.added[t] = 1

OnReadyCalls == {i \in 1..Len(calls) : calls[i].call = "onReady"}

\* C11 (onReady is one-shot): over any sequence of open and close events of
\* the sink, the onReady callback is invoked by the first open event, once,
\* and by no later event.
C11_OnReadyOnce ==
    /\ [](log.onReady <= 1)
    /\ [][(lastOp' = "sourceopen" /\ log.onReady = 0) =>
              (log.onReady' = 1 /\ Cardinality(OnReadyCalls') = 1)]_vars
    /\ [][log.onReady' # log.onReady => (lastOp' = "sourceopen" /\ log.onReady = 0)]_vars
    /\ [][log.onReady = 1 => OnReadyCalls' = {}]_vars

C11_LaterOpen ==
    /\ lastOp = "sourceopen" /\ log.onReady = 1 /\ OnReadyCalls = {}
    /\ sinkOpen /\ mseReady /\ onReady = "null"
    /\ ~bufferControllers.truthy

\* C12 (audio-only eviction offset): in mode audio every clear offset of a
\* periodic cleanup pass is the playback position itself.
C12_AudioRawPosition ==
    (mode = "audio" /\ lastClean.done) =>
        \A i \in 1..Len(lastClean.limits) : lastClean.limits[i] = lastClean.p

\* C13: in mode audio no operation or event handler fails because there is no
\* video track.
C13_AudioNeedsNoVideoTrack ==
    (mode = "audio" /\ ~destroyed) => thrown = "none"

NothingParsed(data) == Len(data.video) = 0 /\ data.audio = 0

\* C14 (invalid input): a feed whose chunk yields no video unit and no audio
\* unit does not reach the remuxer, changes neither the frame counter nor the
\* ledger nor anything else the object holds, and throws nothing, so that
\* every later chunk is processed from the state the rejected one found.
C14_RejectedWithoutEffect ==
    [][(lastOp' = "feed" /\ NothingParsed(input')) =>
          /\ ProgramState' = ProgramState
          /\ videoTime' = videoTime /\ gopStart' = gopStart
          /\ thrown' = "none"
          /\ \A i \in 1..Len(calls') : calls'[i].call = "debug.error"]_vars

C14_RejectedBetweenChunks ==
    /\ lastOp = "feed" /\ NothingParsed(input)
    /\ log.remuxed = 1 /\ kfCounter = 1 /\ kfPosition = <<frameDuration>>
    /\ Len(calls) = 1 /\ calls[1].call = "debug.error"

Cleanups == {i \in 1..Len(calls) : calls[i].call = "initCleanup"}

\* C15 (clearBuffer enables eviction): with the clearBuffer option off the
\* ledger stays empty and no cleanup is ever requested of a buffer controller.
C15_NoEvictionWhenOff ==
    ~optClearBuffer =>
        /\ kfPosition = <<>>
        /\ Cleanups = {}
        /\ \A t \in TypeSet : log.cleanups[t] = 0

\* C16: within one periodic cleanup pass in mode both, every track's buffer is
\* asked to clean up to the same offset.
C16_OneOffsetPerPass ==
    (mode = "both" /\ lastClean.done) =>
        \A i, j \in 1..Len(lastClean.limits) : lastClean.limits[i] = lastClean.limits[j]

Appended(before, after) == SubSeq(after, Len(before) + 1, Len(after))

\* C17: each ledger entry appended for a video keyframe is the presentation
\* time at which that keyframe begins: the sum of the durations of all video
\* frames processed before it.
C17_EntryIsKeyframeStart ==
    [][lastOp' = "feed" => Appended(kfPosition, kfPosition') = Appended(gopStart, gopStart')]_vars

RECURSIVE UnitsOf(_)
UnitsOf(frames) ==
    IF frames = <<>> THEN <<>> ELSE Head(frames).units \o UnitsOf(Tail(frames))

HasVcl(units) == \E i \in 1..Len(units) : isvcl(units[i])

\* C18 (frame assembly partitions the chunk): the units of the frames made of
\* a non-empty unit sequence, in order, are the sequence itself; every frame
\* holds a VCL unit, unless the sequence holds none, and then there is exactly
\* one frame.
C18_FramesPartitionChunk ==
    (output.done /\ Len(input.video) >= 1) =>
        /\ UnitsOf(output.video) = input.video
        /\ Len(output.video) >= 1
        /\ HasVcl(input.video) =>
               \A i \in 1..Len(output.video) : HasVcl(output.video[i].units)
        /\ ~HasVcl(input.video) => Len(output.video) = 1

C18_TrailingUnitKept ==
    /\ output.done
    /\ input.video = <<NALU("SPS", FALSE), NALU("IDR", TRUE), NALU("SPS", FALSE)>>
    /\ Len(output.video) = 1 /\ Len(output.video[1].units) = 3

Detached == {t \in TypeSet : log.removed[t] > 0}

\* C19 (a fatal error stays isolated): once a track's buffer has been detached
\* after a fatal error, no segment is fed to that track's controller, no
\* append is attempted on its buffer and its detach is not asked for again.
C19_DetachedTrackLeftAlone ==
    [][\A t \in Detached :
          \A i \in 1..Len(calls') :
              calls'[i].type = t =>
                  calls'[i].call \notin {"feed", "appendBuffer", "removeSourceBuffer"}]_vars

\* C20 (no segment is lost): every segment the remuxer delivers for a track of
\* the mode is fed to that track's buffer controller once, in delivery order.
C20_DeliveredIsFed ==
    unsupported = {} =>
        \A t \in TrackTypes(mode) : log.fed[t] = log.delivered[t]

====
